---- MODULE Spec2Model ----
(***************************************************************************)
(* HELEN stitch: a state-machine model of src/stitch.py                    *)
(* (process_marginpolish_h5py and its __main__ entry) together with the    *)
(* chunk stitcher it calls (modules.python.Stitch, described in spec.md    *)
(* sections 4.2-4.4).                                                      *)
(*                                                                         *)
(* Spec        the contig scheduler: one or more runs of                   *)
(*             process_marginpolish_h5py over the same store and the same  *)
(*             output path.                                                *)
(* SpecStitch  one iteration of the contig loop in detail: listing and     *)
(*             sorting the chunk keys, then the stitcher's fold over them. *)
(* SpecVcf     fix_vcf of src/modules/python/helper/VCF_remove_phase.py.   *)
(***************************************************************************)
EXTENDS Integers, Sequences, FiniteSets, TLC

(* ------------------------------ bounds -------------------------------- *)
MaxContigs == 3
MaxThreads == 2
MaxRuns == 2
MaxChunks == 3
MaxRun == 2
MaxRecords == 2
MaxSamples == 2

(* --------------------- constants of the stitcher ---------------------- *)
\* Number of (label, run-length) pairs of a chunk's prediction: chunks are
\* fixed-length.
ChunkLen == 1

\* K: the aligner looks at the last K bases of the consensus and the first K
\* bases of the new chunk.
AlignWindow == 2

\* Scoring of the local alignment.
MatchScore == 1
MismatchPenalty == 1
GapPenalty == 1

(* ------------------------------ alphabet ------------------------------ *)
Bases == {"A", "C"}

\* Names of the contigs of a store, in the order h5py lists them.
ContigNames == <<"c1", "c2", "c3", "c4", "c5">>

\* Consensus strings create_consensus_sequence may hand back.
ConsensusChoices == {<<>>, <<"A">>, <<"A", "C">>}

\* What one call of Stitch.create_consensus_sequence does: returns a string,
\* returns None, or raises.
Outcomes ==
    [kind : {"seq"}, seq : ConsensusChoices, err : {"none"}]
    \cup [kind : {"none"}, seq : {<<>>}, err : {"none"}]
    \cup [kind : {"raise"}, seq : {<<>>}, err : {"DecodeError", "NotFoundError"}]

\* Python's None as the value of the local consensus_sequence.
None == [kind |-> "none", seq |-> <<>>, err |-> "none"]

VARIABLES
    has_predictions,     \* 'predictions' in hdf5_file
    outcome,             \* per listed contig: what stitching it yields on this store
    threads,             \* FLAGS.threads of the current run
    run,                 \* number of runs started so far
    pc,                  \* position of process_marginpolish_h5py
    contigs,             \* the local list contigs
    status,              \* per contig: position of its loop iteration
    consensus_sequence,  \* the local consensus_sequence
    file,                \* lines of <output_path>_HELEN_consensus.fa
    stderr,              \* messages written to sys.stderr by the current run
    error,               \* exception that left process_marginpolish_h5py
    prev_file,           \* the file as the previous run left it
    prev_threads,        \* FLAGS.threads of the previous run
    \* one iteration of the contig loop, in detail
    store_keys,          \* hdf5_file['predictions'][contig].keys()
    chunk_keys,          \* the local chunk_keys handed to the stitcher
    spc,                 \* position of the iteration / of the stitcher
    pos,                 \* number of chunks the stitcher has consumed
    consumed,            \* the keys of the chunks consumed, in order of consumption
    consensus,           \* the stitcher's consensus so far
    prev_consensus,      \* the consensus before the last step
    chunk_seq,           \* decoded sequence of the chunk consumed last
    last_step,           \* what the last step did, and at which anchor
    first_len,           \* length of the first chunk's decoded sequence
    min_score,           \* the aligner's minimum score for an anchor
    \* fix_vcf
    vcf_in,              \* the records of input_vcf: per record, the PS of its samples
    vpc,                 \* position of fix_vcf
    vidx,                \* number of (record, sample) pairs visited
    PS_dictionary,       \* the local PS_dictionary
    PS_value,            \* the local PS_value
    ps_out,              \* per visited pair: the PS string assigned to it
    vcf_out,             \* the records written to output_vcf
    verror               \* exception that left fix_vcf

schedVars == <<has_predictions, outcome, threads, run, pc, contigs, status,
               consensus_sequence, file, stderr, error, prev_file, prev_threads>>

stitchVars == <<store_keys, chunk_keys, spc, pos, consumed, consensus,
                prev_consensus, chunk_seq, last_step, first_len, min_score>>

vcfVars == <<vcf_in, vpc, vidx, PS_dictionary, PS_value, ps_out, vcf_out, verror>>

vars == <<schedVars, stitchVars, vcfVars>>

\* defaultdict(int), still empty.
EmptyDict == [kind |-> "dict", entries |-> {}, int |-> 0]

\* fix_vcf before it is called.
VcfIdle ==
    /\ vcf_in = <<>>
    /\ vpc = "idle"
    /\ vidx = 0
    /\ PS_dictionary = EmptyDict
    /\ PS_value = 0
    /\ ps_out = <<>>
    /\ vcf_out = <<>>
    /\ verror = "none"

(* --------------------------- helper operators ------------------------- *)
\* list(hdf5_file['predictions'].keys())
ListContigs == SubSeq(ContigNames, 1, Len(outcome))

OpenOutputAppend(old) == old

\* open(path, 'w'): the file is truncated.
OpenOutput(old) == <<>>

WriteLineAtFront(f, line) == <<line>> \o f

\* consensus_fasta_file.write(line + "\n")
WriteLine(f, line) == Append(f, line)

\* '>' + contig
HeaderLine(contig) == <<">", contig>>

IsHeader(line) == Len(line) >= 1 /\ line[1] = ">"

Finished(i) == status[i] \in {"written", "skipped"}

CanDispatchAnyPending(st, i) == st[i] = "pending"

\* The for loop reaches contig i once the iterations of all contigs before it
\* have run to their end.
CanDispatch(st, i) ==
    /\ st[i] = "pending"
    /\ \A j \in 1..(i - 1) : st[j] \in {"written", "skipped"}

(* ------------------------------- actions ------------------------------ *)
\* __main__: process_marginpolish_h5py(FLAGS.sequence_hdf, FLAGS.output_dir, FLAGS.threads)
Start(w) ==
    /\ pc \in {"idle", "done", "aborted"}
    /\ run < MaxRuns
    /\ run' = run + 1
    /\ threads' = w
    /\ pc' = "gather"
    /\ contigs' = <<>>
    /\ status' = <<>>
    /\ consensus_sequence' = None
    /\ stderr' = <<>>
    /\ error' = "none"
    /\ prev_file' = file
    /\ prev_threads' = threads
    /\ UNCHANGED <<has_predictions, outcome, file>>
    /\ UNCHANGED <<stitchVars, vcfVars>>

\* Lines 36-46: gather the contigs or raise ValueError, then open the output.
GatherContigs ==
    /\ pc = "gather"
    /\ IF has_predictions
       THEN /\ contigs' = ListContigs
            /\ status' = [i \in 1..Len(outcome) |-> "pending"]
            /\ file' = OpenOutput(file)
            /\ pc' = "loop"
            /\ error' = error
       ELSE /\ pc' = "aborted"
            /\ error' = "ValueError"
            /\ UNCHANGED <<contigs, status, file>>
    /\ UNCHANGED <<has_predictions, outcome, threads, run, consensus_sequence,
                   stderr, prev_file, prev_threads>>
    /\ UNCHANGED <<stitchVars, vcfVars>>

\* Lines 49-58 up to the call: log, list the chunk keys, call the stitcher.
Dispatch(i) ==
    /\ pc = "loop"
    /\ i \in DOMAIN status
    /\ CanDispatch(status, i)
    /\ status' = [status EXCEPT ![i] = "stitching"]
    /\ stderr' = Append(stderr, <<"PROCESSING", contigs[i]>>)
    /\ UNCHANGED <<has_predictions, outcome, threads, run, pc, contigs,
                   consensus_sequence, file, error, prev_file, prev_threads>>
    /\ UNCHANGED <<stitchVars, vcfVars>>

\* Line 58: create_consensus_sequence returns or raises; nothing catches.
StitchReturn(i) ==
    /\ pc = "loop"
    /\ i \in DOMAIN status
    /\ status[i] = "stitching"
    /\ IF outcome[i].kind = "raise"
       THEN /\ status' = [status EXCEPT ![i] = "failed"]
            /\ error' = outcome[i].err
            /\ pc' = "aborted"
            /\ UNCHANGED consensus_sequence
       ELSE /\ status' = [status EXCEPT ![i] = "stitched"]
            /\ consensus_sequence' = outcome[i]
            /\ UNCHANGED <<error, pc>>
    /\ UNCHANGED <<has_predictions, outcome, threads, run, contigs, file,
                   stderr, prev_file, prev_threads>>
    /\ UNCHANGED <<stitchVars, vcfVars>>

\* Lines 59-60: the message takes len(consensus_sequence); len(None) raises.
Report(i) ==
    /\ pc = "loop"
    /\ i \in DOMAIN status
    /\ status[i] = "stitched"
    /\ IF consensus_sequence.kind = "none"
       THEN /\ status' = [status EXCEPT ![i] = "failed"]
            /\ error' = "TypeError"
            /\ pc' = "aborted"
            /\ UNCHANGED stderr
       ELSE /\ status' = [status EXCEPT ![i] = "reported"]
            /\ stderr' = Append(stderr, <<"FINISHED", contigs[i]>>)
            /\ UNCHANGED <<error, pc>>
    /\ UNCHANGED <<has_predictions, outcome, threads, run, contigs,
                   consensus_sequence, file, prev_file, prev_threads>>
    /\ UNCHANGED <<stitchVars, vcfVars>>

\* Lines 63-64: if consensus_sequence is not None, write the header line.
\* (None never gets here: line 60 has raised on it.)
WriteHeader(i) ==
    /\ pc = "loop"
    /\ i \in DOMAIN status
    /\ status[i] = "reported"
    /\ IF consensus_sequence.kind # "none"
       THEN /\ file' = WriteLine(file, HeaderLine(contigs[i]))
            /\ status' = [status EXCEPT ![i] = "writing"]
       ELSE /\ file' = file
            /\ status' = [status EXCEPT ![i] = "skipped"]
    /\ UNCHANGED <<has_predictions, outcome, threads, run, pc, contigs,
                   consensus_sequence, stderr, error, prev_file, prev_threads>>
    /\ UNCHANGED <<stitchVars, vcfVars>>

\* Line 65: write the sequence line.
WriteSequence(i) ==
    /\ pc = "loop"
    /\ i \in DOMAIN status
    /\ status[i] = "writing"
    /\ file' = WriteLine(file, consensus_sequence.seq)
    /\ status' = [status EXCEPT ![i] = "written"]
    /\ UNCHANGED <<has_predictions, outcome, threads, run, pc, contigs,
                   consensus_sequence, stderr, error, prev_file, prev_threads>>
    /\ UNCHANGED <<stitchVars, vcfVars>>

\* The for loop is exhausted and the function returns.
Return ==
    /\ pc = "loop"
    /\ \A i \in DOMAIN status : Finished(i)
    /\ pc' = "done"
    /\ UNCHANGED <<has_predictions, outcome, threads, run, contigs, status,
                   consensus_sequence, file, stderr, error, prev_file, prev_threads>>
    /\ UNCHANGED <<stitchVars, vcfVars>>

(* ---------------------------- specification --------------------------- *)
Stores ==
    UNION {[1..n -> Outcomes] : n \in 0..MaxContigs}

NoStep == [kind |-> "none", lo |-> 0, ro |-> 0]

\* The stitcher before it is called.
StitchIdle ==
    /\ chunk_keys = <<>>
    /\ pos = 0
    /\ consumed = <<>>
    /\ consensus = <<>>
    /\ prev_consensus = <<>>
    /\ chunk_seq = <<>>
    /\ last_step = NoStep
    /\ first_len = 0

Init ==
    /\ store_keys = {}
    /\ spc = "idle"
    /\ min_score = 1
    /\ StitchIdle
    /\ VcfIdle
    /\ has_predictions \in BOOLEAN
    /\ outcome \in Stores
    /\ threads = 1
    /\ run = 0
    /\ pc = "idle"
    /\ contigs = <<>>
    /\ status = <<>>
    /\ consensus_sequence = None
    /\ file = <<>>
    /\ stderr = <<>>
    /\ error = "none"
    /\ prev_file = <<>>
    /\ prev_threads = 1

Next ==
    \/ \E w \in 1..MaxThreads : Start(w)
    \/ GatherContigs
    \/ \E i \in 1..MaxContigs : Dispatch(i)
    \/ \E i \in 1..MaxContigs : StitchReturn(i)
    \/ \E i \in 1..MaxContigs : Report(i)
    \/ \E i \in 1..MaxContigs : WriteHeader(i)
    \/ \E i \in 1..MaxContigs : WriteSequence(i)
    \/ Return

Spec == Init /\ [][Next]_vars

(* ------------------- one loop iteration, in detail -------------------- *)
Min(a, b) == IF a <= b THEN a ELSE b

\* The chunk keys a contig's group may hold, each a string given by the code
\* points of its characters: three keys of one length and a proper prefix.
ChunkKeySpace == {<<0>>, <<0, 0>>, <<0, 1>>, <<1, 0>>}

\* Python's str.__lt__: lexicographic by code point, a proper prefix first.
KeyLess(a, b) ==
    \E k \in 1..(Min(Len(a), Len(b)) + 1) :
        /\ \A j \in 1..(k - 1) : a[j] = b[j]
        /\ \/ k > Len(a) /\ k <= Len(b)
           \/ k <= Len(a) /\ k <= Len(b) /\ a[k] < b[k]

RECURSIVE InsertKey(_, _)
InsertKey(key, sorted) ==
    IF sorted = <<>> THEN <<key>>
    ELSE IF KeyLess(key, Head(sorted)) THEN <<key>> \o sorted
    ELSE <<Head(sorted)>> \o InsertKey(key, Tail(sorted))

RECURSIVE SortKeys(_)
SortKeys(listing) ==
    IF listing = <<>> THEN <<>>
    ELSE InsertKey(listing[Len(listing)], SortKeys(SubSeq(listing, 1, Len(listing) - 1)))

Unsorted(listing) == listing

\* sorted(hdf5_file['predictions'][contig].keys())
Sorted(listing) == SortKeys(listing)

\* The orders in which keys() may list a group's keys.
Listings(keys) ==
    {l \in [1..Cardinality(keys) -> keys] : \A a, b \in DOMAIN l : a # b => l[a] # l[b]}

\* Raw predictions of a chunk: ChunkLen (label, run-length) pairs.
Labels == Bases \cup {"gap"}

RunLengths == (-1)..MaxRun

Predictions == [1..ChunkLen -> Labels \X RunLengths]

\* A non-gap label with a run-length below one cannot be decoded.
Malformed(prediction) ==
    \E k \in DOMAIN prediction :
        prediction[k][1] # "gap" /\ prediction[k][2] < 1

\* Run-length decoder: a gap contributes nothing, a base label its run.
RECURSIVE Decode(_)
Decode(prediction) ==
    IF prediction = <<>> THEN <<>>
    ELSE LET label == Head(prediction)[1]
             n == Head(prediction)[2]
         IN (IF label = "gap" THEN <<>> ELSE [k \in 1..n |-> label])
            \o Decode(Tail(prediction))

\* The windows the aligner sees.
TailWindow(left) == SubSeq(left, Len(left) - Min(AlignWindow, Len(left)) + 1, Len(left))

HeadWindow(right) == SubSeq(right, 1, Min(AlignWindow, Len(right)))

Max(a, b) == IF a >= b THEN a ELSE b

\* Smith-Waterman: best score of a local alignment ending at tail[i], head[j].
RECURSIVE CellScore(_, _, _, _)
CellScore(tail, head, i, j) ==
    IF i = 0 \/ j = 0 THEN 0
    ELSE Max(Max(0,
                 CellScore(tail, head, i - 1, j - 1)
                     + (IF tail[i] = head[j] THEN MatchScore ELSE -MismatchPenalty)),
             Max(CellScore(tail, head, i - 1, j) - GapPenalty,
                 CellScore(tail, head, i, j - 1) - GapPenalty))

Cells(tail, head) == (1..Len(tail)) \X (1..Len(head))

\* The ends of the highest-scoring local alignments, if the score reaches the
\* minimum.
BestCells(tail, head, least) ==
    {c \in Cells(tail, head) :
        /\ CellScore(tail, head, c[1], c[2]) >= least
        /\ \A d \in Cells(tail, head) :
              CellScore(tail, head, d[1], d[2]) <= CellScore(tail, head, c[1], c[2])}

\* Bases between an alignment's end and the chunk boundary: the rest of the
\* tail window plus the part of the head window up to the end.
Overlap(tail, c) == (Len(tail) - c[1]) + c[2]

PairBefore(c, d) == c[1] < d[1] \/ (c[1] = d[1] /\ c[2] <= d[2])

\* Tie-break: the end closest to the chunk boundary, then the first pair.
Anchors(tail, head, least) ==
    {c \in BestCells(tail, head, least) :
        \A d \in BestCells(tail, head, least) :
            \/ Overlap(tail, c) < Overlap(tail, d)
            \/ Overlap(tail, c) = Overlap(tail, d) /\ PairBefore(c, d)}

SpliceWindowRelative(left, right, lo, ro) ==
    SubSeq(left, 1, lo) \o SubSeq(right, ro + 1, Len(right))

\* Anchor (lo, ro), offsets into the two windows: the consensus is cut at lo
\* and the new chunk appended from ro.
Splice(left, right, lo, ro) ==
    SubSeq(left, 1, Len(left) - Len(TailWindow(left)) + lo)
    \o SubSeq(right, ro + 1, Len(right))

ConcatenateTrimmed(left, right) == left \o SubSeq(right, 2, Len(right))

\* No anchor: direct concatenation.
Concatenate(left, right) == left \o right

\* Lines 52-58: list the chunk keys, sort them, hand them to the stitcher.
ListChunks ==
    /\ spc = "list"
    /\ \E listing \in Listings(store_keys) : chunk_keys' = Sorted(listing)
    /\ spc' = "stitch"
    /\ UNCHANGED <<store_keys, pos, consumed, consensus, prev_consensus,
                   chunk_seq, last_step, first_len, min_score>>
    /\ UNCHANGED <<schedVars, vcfVars>>

\* The chunk could not be decoded: the stitching of the contig is abandoned.
FailDecode ==
    /\ spc' = "failed"
    /\ last_step' = [kind |-> "decode_error", lo |-> 0, ro |-> 0]
    /\ UNCHANGED <<store_keys, chunk_keys, pos, consumed, consensus,
                   prev_consensus, chunk_seq, first_len, min_score>>

\* Step 1: decode the first chunk and seed the consensus with it.
Seed(prediction) ==
    /\ spc = "stitch"
    /\ pos = 0
    /\ Len(chunk_keys) >= 1
    /\ IF Malformed(prediction)
       THEN FailDecode
       ELSE /\ chunk_seq' = Decode(prediction)
            /\ prev_consensus' = consensus
            /\ consensus' = Decode(prediction)
            /\ first_len' = Len(Decode(prediction))
            /\ pos' = 1
            /\ consumed' = Append(consumed, chunk_keys[1])
            /\ last_step' = [kind |-> "seed", lo |-> 0, ro |-> 0]
            /\ UNCHANGED <<store_keys, chunk_keys, spc, min_score>>
    /\ UNCHANGED <<schedVars, vcfVars>>

\* Step 2 on a malformed chunk: DecodeError.
MergeDecodeError(prediction) ==
    /\ spc = "stitch"
    /\ pos >= 1
    /\ pos < Len(chunk_keys)
    /\ Malformed(prediction)
    /\ FailDecode
    /\ UNCHANGED <<schedVars, vcfVars>>

\* Steps 2-3: decode the next chunk; the aligner finds an anchor; splice.
MergeAtAnchor(prediction) ==
    /\ spc = "stitch"
    /\ pos >= 1
    /\ pos < Len(chunk_keys)
    /\ ~Malformed(prediction)
    /\ \E anchor \in Anchors(TailWindow(consensus), HeadWindow(Decode(prediction)), min_score) :
          /\ consensus' = Splice(consensus, Decode(prediction), anchor[1], anchor[2])
          /\ last_step' = [kind |-> "anchor", lo |-> anchor[1], ro |-> anchor[2]]
    /\ chunk_seq' = Decode(prediction)
    /\ prev_consensus' = consensus
    /\ pos' = pos + 1
    /\ consumed' = Append(consumed, chunk_keys[pos + 1])
    /\ UNCHANGED <<store_keys, chunk_keys, spc, first_len, min_score>>
    /\ UNCHANGED <<schedVars, vcfVars>>

\* Steps 2 and 4: decode the next chunk; the aligner finds no anchor;
\* concatenate.
MergeNoAnchor(prediction) ==
    /\ spc = "stitch"
    /\ pos >= 1
    /\ pos < Len(chunk_keys)
    /\ ~Malformed(prediction)
    /\ Anchors(TailWindow(consensus), HeadWindow(Decode(prediction)), min_score) = {}
    /\ chunk_seq' = Decode(prediction)
    /\ prev_consensus' = consensus
    /\ consensus' = Concatenate(consensus, Decode(prediction))
    /\ pos' = pos + 1
    /\ consumed' = Append(consumed, chunk_keys[pos + 1])
    /\ last_step' = [kind |-> "miss", lo |-> 0, ro |-> 0]
    /\ UNCHANGED <<store_keys, chunk_keys, spc, first_len, min_score>>
    /\ UNCHANGED <<schedVars, vcfVars>>

\* Step 5: all chunks are consumed, the consensus is returned.
ReturnConsensus ==
    /\ spc = "stitch"
    /\ pos = Len(chunk_keys)
    /\ spc' = "returned"
    /\ UNCHANGED <<store_keys, chunk_keys, pos, consumed, consensus,
                   prev_consensus, chunk_seq, last_step, first_len, min_score>>
    /\ UNCHANGED <<schedVars, vcfVars>>

KeySets == {ks \in SUBSET ChunkKeySpace : Cardinality(ks) <= MaxChunks}

InitStitch ==
    /\ store_keys \in KeySets
    /\ min_score \in 1..AlignWindow
    /\ spc = "list"
    /\ StitchIdle
    /\ VcfIdle
    /\ has_predictions = TRUE
    /\ outcome = <<>>
    /\ threads = 1
    /\ run = 0
    /\ pc = "loop"
    /\ contigs = <<>>
    /\ status = <<>>
    /\ consensus_sequence = None
    /\ file = <<>>
    /\ stderr = <<>>
    /\ error = "none"
    /\ prev_file = <<>>
    /\ prev_threads = 1

NextStitch ==
    \/ ListChunks
    \/ \E prediction \in Predictions : Seed(prediction)
    \/ \E prediction \in Predictions : MergeDecodeError(prediction)
    \/ \E prediction \in Predictions : MergeAtAnchor(prediction)
    \/ \E prediction \in Predictions : MergeNoAnchor(prediction)
    \/ ReturnConsensus

SpecStitch == InitStitch /\ [][NextStitch]_vars

(* ------------------------------ fix_vcf ------------------------------- *)
\* The PS values the samples of the input carry.
PsTags == {7, 12}

SampleLists == UNION {[1..m -> PsTags] : m \in 0..MaxSamples}

VcfInputs == UNION {[1..n -> SampleLists] : n \in 0..MaxRecords}

DigitChars == <<"0", "1", "2", "3", "4", "5", "6", "7", "8", "9">>

\* str(n) of a non-negative int: its decimal digits.
RECURSIVE Str(_)
Str(n) ==
    IF n < 10 THEN <<DigitChars[n + 1]>>
    ELSE Str(n \div 10) \o <<DigitChars[(n % 10) + 1]>>

\* The (record, sample) pairs in the order the two for loops visit them.
RECURSIVE PairsFrom(_, _)
PairsFrom(records, r) ==
    IF r > Len(records) THEN <<>>
    ELSE [s \in 1..Len(records[r]) |-> <<r, s>>] \o PairsFrom(records, r + 1)

Pairs(records) == PairsFrom(records, 1)

\* Index of the pair (r, s) in visiting order.
PairIndex(records, r, s) ==
    CHOOSE k \in 1..Len(Pairs(records)) : Pairs(records)[k] = <<r, s>>

\* The record r as written when the PS strings in assigned have been stored
\* in its samples: the samples visited carry the assigned string, the others
\* their input value.
WrittenRecord(records, assigned, r) ==
    [s \in 1..Len(records[r]) |->
        IF PairIndex(records, r, s) <= Len(assigned)
        THEN assigned[PairIndex(records, r, s)]
        ELSE Str(records[r][s])]

\* input_ps not in PS_dictionary, on a dictionary.
NotInDict(key, dict) == \A e \in dict.entries : e[1] # key

\* Lines 7-11: open the two files, fetch the records, set up the locals.
StartVcf ==
    /\ vpc = "start"
    /\ vpc' = "loop"
    /\ PS_dictionary' = EmptyDict
    /\ PS_value' = 100
    /\ UNCHANGED <<vcf_in, vidx, ps_out, vcf_out, verror>>
    /\ UNCHANGED <<schedVars, stitchVars>>

\* Lines 15-22 on the next pair while PS_dictionary is a dictionary: an
\* unseen tag rebinds PS_dictionary to the int PS_value and advances
\* PS_value; then str(PS_value) is stored in the sample and the record
\* written.
VisitPair ==
    /\ vpc = "loop"
    /\ vidx < Len(Pairs(vcf_in))
    /\ PS_dictionary.kind = "dict"
    /\ LET pair == Pairs(vcf_in)[vidx + 1]
           input_ps == Str(vcf_in[pair[1]][pair[2]])
           unseen == NotInDict(input_ps, PS_dictionary)
           value == IF unseen THEN PS_value + 50 ELSE PS_value
       IN /\ PS_dictionary' =
                 IF unseen
                 THEN [kind |-> "int", entries |-> {}, int |-> PS_value]
                 ELSE PS_dictionary
          /\ PS_value' = value
          /\ ps_out' = Append(ps_out, Str(value))
          /\ vcf_out' = Append(vcf_out,
                               WrittenRecord(vcf_in, Append(ps_out, Str(value)), pair[1]))
    /\ vidx' = vidx + 1
    /\ UNCHANGED <<vcf_in, vpc, verror>>
    /\ UNCHANGED <<schedVars, stitchVars>>

\* Line 17 on the next pair once PS_dictionary is an int: `in` raises
\* TypeError.
VisitPairRaises ==
    /\ vpc = "loop"
    /\ vidx < Len(Pairs(vcf_in))
    /\ PS_dictionary.kind = "int"
    /\ vpc' = "raised"
    /\ verror' = "TypeError"
    /\ UNCHANGED <<vcf_in, vidx, PS_dictionary, PS_value, ps_out, vcf_out>>
    /\ UNCHANGED <<schedVars, stitchVars>>

\* Both loops are exhausted and fix_vcf returns.
ReturnVcf ==
    /\ vpc = "loop"
    /\ vidx = Len(Pairs(vcf_in))
    /\ vpc' = "done"
    /\ UNCHANGED <<vcf_in, vidx, PS_dictionary, PS_value, ps_out, vcf_out, verror>>
    /\ UNCHANGED <<schedVars, stitchVars>>

InitVcf ==
    /\ vcf_in \in VcfInputs
    /\ vpc = "start"
    /\ vidx = 0
    /\ PS_dictionary = EmptyDict
    /\ PS_value = 0
    /\ ps_out = <<>>
    /\ vcf_out = <<>>
    /\ verror = "none"
    /\ store_keys = {}
    /\ spc = "idle"
    /\ min_score = 1
    /\ StitchIdle
    /\ has_predictions = TRUE
    /\ outcome = <<>>
    /\ threads = 1
    /\ run = 0
    /\ pc = "idle"
    /\ contigs = <<>>
    /\ status = <<>>
    /\ consensus_sequence = None
    /\ file = <<>>
    /\ stderr = <<>>
    /\ error = "none"
    /\ prev_file = <<>>
    /\ prev_threads = 1

NextVcf ==
    \/ StartVcf
    \/ VisitPair
    \/ VisitPairRaises
    \/ ReturnVcf

SpecVcf == InitVcf /\ [][NextVcf]_vars

(* ------------------------ scheduler: the claims ----------------------- *)
Range(s) == {s[k] : k \in DOMAIN s}

IndexOf(name) == CHOOSE k \in 1..Len(ContigNames) : ContigNames[k] = name

Headers(f) == SelectSeq(f, IsHeader)

RunEnded == pc \in {"done", "aborted"}

\* The consensus of contig i on this store is a non-empty string.
NonEmptyConsensus(i) == outcome[i].kind = "seq" /\ outcome[i].seq # <<>>

\* The consensus of contig i on this store is None or the empty string.
EmptyConsensus(i) ==
    \/ outcome[i].kind = "none"
    \/ outcome[i].kind = "seq" /\ outcome[i].seq = <<>>

HasHeader(i) == HeaderLine(ContigNames[i]) \in Range(file)

\* The file holds exactly one header of contig i, directly followed by the
\* line with its consensus.
HasRecord(i) ==
    /\ Cardinality({p \in DOMAIN file : file[p] = HeaderLine(ContigNames[i])}) = 1
    /\ \A p \in DOMAIN file :
          file[p] = HeaderLine(ContigNames[i]) =>
              p + 1 \in DOMAIN file /\ file[p + 1] = outcome[i].seq

TasksInProgress ==
    Cardinality({i \in DOMAIN status :
                    status[i] \in {"stitching", "stitched", "reported", "writing"}})

Writers == Cardinality({i \in DOMAIN status : status[i] = "writing"})

\* C1: the headers in the output name listed contigs, in strictly increasing
\* listing position: no contig is written before an earlier-listed one, and
\* none is written twice.
C1_OutputInListingOrder ==
    LET h == Headers(file) IN
    /\ \A a \in DOMAIN h : h[a][2] \in Range(ListContigs)
    /\ \A a, b \in DOMAIN h : a < b => IndexOf(h[a][2]) < IndexOf(h[b][2])

C1_Witness == RunEnded /\ Len(Headers(file)) >= 2

\* C2: when the stitching of a contig raised, every other contig whose
\* consensus is a non-empty string has its record in the output at the end
\* of the run, and the failed one has none.
C2_FatalIsolation ==
    RunEnded =>
        \A k \in DOMAIN status :
            (outcome[k].kind = "raise" /\ status[k] = "failed") =>
                /\ ~HasHeader(k)
                /\ \A i \in DOMAIN status :
                      (i # k /\ NonEmptyConsensus(i)) => HasRecord(i)

\* C3: without the predictions namespace the run ends with an error before
\* any contig is listed or any line written, and no other failure ends a run.
C3_OnlyMissingNamespaceAborts ==
    /\ (~has_predictions /\ pc \notin {"idle", "gather"}) =>
           pc = "aborted" /\ contigs = <<>> /\ file = <<>>
    /\ pc = "aborted" => ~has_predictions

\* C4: a contig whose consensus is None or empty never fails its iteration
\* and never gets a record.
C4_EmptyIsNotAnError ==
    \A i \in DOMAIN status :
        EmptyConsensus(i) => status[i] # "failed" /\ ~HasHeader(i)

\* C5: when the run has returned, a contig has a record in the output
\* exactly if its consensus is non-empty, and the record is its header line
\* directly followed by its consensus line.
C5_RecordIffNonEmpty ==
    pc = "done" =>
        \A i \in DOMAIN status :
            /\ HasHeader(i) <=> NonEmptyConsensus(i)
            /\ HasHeader(i) => HasRecord(i)

\* C7: with a worker count of at least one, at most that many contigs are
\* being stitched at once and at most one iteration is writing to the output.
C7_BoundedWorkers ==
    threads >= 1 => TasksInProgress <= threads /\ Writers <= 1

C7_Witness == threads = 1 /\ TasksInProgress = 1 /\ Writers = 1 /\ Len(contigs) >= 2

RECURSIVE LexBefore(_, _)
LexBefore(a, b) ==
    IF a = <<>> THEN b # <<>>
    ELSE IF b = <<>> THEN FALSE
    ELSE IF Head(a) # Head(b) THEN Head(a) < Head(b)
    ELSE LexBefore(Tail(a), Tail(b))

\* Bases of the consensus tail an anchor step threw away, and bases of the
\* new chunk it appended.
Discarded == Len(TailWindow(prev_consensus)) - last_step.lo

Appended == Len(chunk_seq) - last_step.ro

C9_NeverShrinks ==
    last_step.kind \in {"seed", "anchor", "miss"} =>
        /\ Len(consensus) >= Len(prev_consensus)
        /\ Len(consensus) >= first_len

\* C9 as amended: seeding gives the first chunk's length; a no-anchor step
\* never shortens the consensus; an anchor step changes the length by the
\* bases appended minus the bases discarded, so it keeps the length exactly
\* when at least as many bases are appended as discarded, and it shortens the
\* consensus by fewer than AlignWindow bases otherwise.
C9_LengthAfterStep ==
    /\ last_step.kind = "seed" =>
          Len(consensus) = first_len /\ first_len = Len(chunk_seq)
    /\ last_step.kind = "miss" => Len(consensus) >= Len(prev_consensus)
    /\ last_step.kind = "anchor" =>
          /\ Len(consensus) = Len(prev_consensus) - Discarded + Appended
          /\ Appended >= Discarded => Len(consensus) >= Len(prev_consensus)
          /\ Len(consensus) > Len(prev_consensus) - AlignWindow

C9_Witness ==
    /\ last_step.kind = "anchor"
    /\ Len(prev_consensus) > AlignWindow
    /\ Discarded >= 1
    /\ Appended >= Discarded

\* C10: after a step on which the aligner found no anchor, the consensus is
\* the previous consensus followed by the whole decoded new chunk, and the
\* stitcher has not failed: it goes on to the next chunk or returns.
C10_NoAnchorConcatenates ==
    last_step.kind = "miss" =>
        /\ consensus = prev_consensus \o chunk_seq
        /\ Len(consensus) = Len(prev_consensus) + Len(chunk_seq)
        /\ spc \in {"stitch", "returned"}
        /\ pos = Len(consumed)

C10_Witness ==
    /\ last_step.kind = "miss"
    /\ prev_consensus # <<>>
    /\ chunk_seq # <<>>
    /\ spc = "stitch"
    /\ pos < Len(chunk_keys)

(* ------------------------- fix_vcf: the claims ------------------------ *)
\* The input PS tag of the k-th pair visited.
InTag(k) == vcf_in[Pairs(vcf_in)[k][1]][Pairs(vcf_in)[k][2]]

\* Number of distinct tags seen up to the first appearance of the k-th pair's
\* tag.
TagRank(k) ==
    LET first == CHOOSE i \in 1..k :
                     InTag(i) = InTag(k) /\ \A j \in 1..(i - 1) : InTag(j) # InTag(k)
    IN Cardinality({InTag(j) : j \in 1..first})

\* C11: fix_vcf never raises and PS_dictionary stays a mapping; every pair
\* visited has had its record written once; when it returns it has visited
\* every pair; two pairs got the same PS string exactly if they carried the
\* same input tag, the strings being 100, 150, 200, ... in order of first
\* appearance of the tag.
C11_FixVcfMapsTags ==
    /\ vpc # "raised"
    /\ PS_dictionary.kind = "dict"
    /\ Len(vcf_out) = vidx
    /\ Len(ps_out) = vidx
    /\ vpc = "done" => vidx = Len(Pairs(vcf_in))
    /\ \A i, j \in 1..Len(ps_out) : (InTag(i) = InTag(j)) <=> (ps_out[i] = ps_out[j])
    /\ \A i \in 1..Len(ps_out) : ps_out[i] = Str(100 + 50 * (TagRank(i) - 1))

====
